---------------------------- MODULE Spec2Model ----------------------------
(***************************************************************************)
(* A model of compress.py: the single-image transformer                    *)
(* compress_and_resize_image and the directory walker                      *)
(* process_directory_recursive, over an abstract file system.              *)
(*                                                                         *)
(* A path is a record [dir, stem, ext]: os.path.join(root, filename) and   *)
(* os.path.splitext act on it field by field.  A file is a record of its   *)
(* permission bits and of its bytes; the file system maps the paths of its *)
(* files to them.  The bytes of an image are                               *)
(* identified by what they decode to (format, width, height) and by        *)
(* "origin", the file the pixels were first read from.  Permissions are    *)
(* those of an unprivileged user.                                          *)
(*                                                                         *)
(* compress_and_resize_image is the transformer with a standard output     *)
(* that accepts every print; TransformerCalls adds what a call does when   *)
(* one of its prints raises.  The walker runs with a standard output that  *)
(* may raise at any print (a closed pipe, a name it cannot encode).        *)
(***************************************************************************)
EXTENDS Integers, Sequences, FiniteSets

\* ------------------------------------------------------------------ bounds
MaxDim == 3
MaxSize == 2
MaxFiles == 2

\* ------------------------------------------------------------ file system
Dirs == {"r", "r/s"}
RootDir == "r"
Stems == {"a"}
Exts == {".jpg", ".JPG", ".bmp", ".txt"}
Paths == [dir : Dirs, stem : Stems, ext : Exts]
NoPath == [dir |-> "", stem |-> "", ext |-> ""]

\* The sub-directories os.walk finds in a directory (the tree of directories
\* is fixed: the program creates and removes none).
SubDirs(d) == IF d = "r" THEN <<"r/s">> ELSE <<>>

Formats == {"JPEG", "PNG", "BMP"}

ImageBytes(fmt, w, h, o) ==
    [decodable |-> TRUE, format |-> fmt, width |-> w, height |-> h, origin |-> o]
\* Bytes no decoder identifies, first stored at path o.
GarbageBytes(o) ==
    [decodable |-> FALSE, format |-> "", width |-> 0, height |-> 0, origin |-> o]
File(r, w, b) == [readable |-> r, writable |-> w, bytes |-> b]

\* os.path.isfile(path): the file system maps the paths of its files.
Exists(f, path) == path \in DOMAIN f

\* ------------------------------------------------------------------ state
VARIABLES
    fs,               \* the file system: the paths of its files -> file
    fs0,              \* the file system when the run began
    rodirs,           \* the directories the process may not create files in
    root_is_dir,      \* os.path.isdir(directory_path)
    max_size,         \* the max_size argument
    pc,               \* where the walker (or the transformer driver) stands
    stack,            \* os.walk: directories still to be listed
    pending,          \* the rest of `files` of the directory being walked
    file_path,        \* the candidate the walker is processing
    total_images, processed_images, skipped_images, failed_images,
    calls,            \* every transformer call so far, in order
    tpath             \* the path the transformer driver calls twice

vars == <<fs, fs0, rodirs, root_is_dir, max_size, pc, stack, pending, file_path,
          total_images, processed_images, skipped_images, failed_images,
          calls, tpath>>

\* ------------------------------------------------------------ transformer
image_extensions ==
    {".jpg", ".jpeg", ".png", ".gif", ".bmp", ".tiff", ".webp", ".avif", ".heic"}

\* str.lower() on the extensions of the model.
Lower(ext) == IF ext = ".JPG" THEN ".jpg" ELSE ext

\* os.path.splitext(image_path)[0] + '.jpg'
JpgPath(image_path) == [image_path EXCEPT !.ext = ".jpg"]

\* os.access(image_path, os.R_OK)
CanRead(f, image_path) == Exists(f, image_path) /\ f[image_path].readable

\* (The comparison made strict.)
ShouldSkipStrict(width, height, max) == width < max /\ height < max
\* width <= max_size and height <= max_size
ShouldSkip(width, height, max) == width <= max /\ height <= max

\* (The branches taken the other way round.)
NewSizeSwapped(width, height, max) ==
    IF height > width
    THEN <<max, (height * max) \div width>>
    ELSE <<(width * max) \div height, max>>
\* new_width, new_height as <<new_width, new_height>>.  int(x * m / y) on
\* positive integers of an image's size is the floor of the quotient.
NewSize(width, height, max) ==
    IF width > height
    THEN <<max, (height * max) \div width>>
    ELSE <<(width * max) \div height, max>>

\* Image.resize raises ValueError unless both sides of the target are > 0.
ResizeOk(new_width, new_height) == new_width >= 1 /\ new_height >= 1

\* (Every format saved over the original.)
SavePathInPlace(image_path, original_format) == image_path
\* The path the re-encoded image is saved to.
SavePath(image_path, original_format) ==
    IF original_format = "JPEG" \/ original_format = "JPG" THEN image_path
    ELSE IF original_format = "PNG" THEN image_path
    ELSE JpgPath(image_path)

\* The format the re-encoded image is saved in.
SaveFormat(original_format) ==
    IF original_format = "JPEG" \/ original_format = "JPG" THEN "JPEG"
    ELSE IF original_format = "PNG" THEN "PNG"
    ELSE "JPEG"

\* img.save(path, ...): open(path, "w+b") needs read and write permission
\* on a file that exists, and write permission on the directory to create
\* one that does not.
CanWrite(f, ro, path) ==
    IF Exists(f, path) THEN f[path].readable /\ f[path].writable
    ELSE path.dir \notin ro

\* (The image saved as it was opened, not as it was resized.)
SavedBytesUnresized(img, new_width, new_height) ==
    ImageBytes(SaveFormat(img.format), img.width, img.height, img.origin)
\* The bytes img.save writes: the resized image.
SavedBytes(img, new_width, new_height) ==
    ImageBytes(SaveFormat(img.format), new_width, new_height, img.origin)

\* The file system after img.save(path, ...).
Save(f, path, b) ==
    [q \in DOMAIN f \cup {path} |->
        IF q /= path THEN f[q]
        ELSE IF Exists(f, path) THEN [f[path] EXCEPT !.bytes = b]
        ELSE File(TRUE, TRUE, b)]

Outcome(res, f, nw, nh, saved) ==
    [result |-> res, fs |-> f, new_width |-> nw, new_height |-> nh, saved_path |-> saved]

\* compress_and_resize_image(image_path, max_size): the tag it returns, the
\* file system it leaves, the target size it computed (0, 0 when it did not
\* get that far) and the path of the save it completed (NoPath when it
\* completed none).
compress_and_resize_image(f, ro, image_path, max) ==
    IF ~CanRead(f, image_path) THEN Outcome("error", f, 0, 0, NoPath)
    ELSE IF ~f[image_path].bytes.decodable THEN Outcome("error", f, 0, 0, NoPath)
    ELSE
      LET img == f[image_path].bytes
          original_format == img.format
          width == img.width
          height == img.height
      IN IF ShouldSkip(width, height, max) THEN Outcome("skipped", f, 0, 0, NoPath)
         ELSE
           LET size == NewSize(width, height, max)
               new_width == size[1]
               new_height == size[2]
               save_path == SavePath(image_path, original_format)
           IN IF ~ResizeOk(new_width, new_height)
                THEN Outcome("error", f, new_width, new_height, NoPath)
              ELSE IF ~CanWrite(f, ro, save_path)
                THEN Outcome("error", f, new_width, new_height, NoPath)
              ELSE Outcome("compressed",
                           Save(f, save_path, SavedBytes(img, new_width, new_height)),
                           new_width, new_height, save_path)

\* One call as `calls` records it: the arguments, the file system before, and
\* what the call did.  "raised" is an exception leaving the transformer.
CallRecord(image_path, pre, max, out, res) ==
    [path |-> image_path, pre |-> pre, max_size |-> max, result |-> res,
     post |-> out.fs, new_width |-> out.new_width, new_height |-> out.new_height,
     saved_path |-> out.saved_path]

\* The bytes of a file whose save was cut short after open(path, "w+b").
PartialBytes(o) ==
    [decodable |-> FALSE, format |-> "partial", width |-> 0, height |-> 0, origin |-> o]

\* The call whose save raises after it has opened its target (a full disk,
\* an I/O error): the target is left cut short and no save has completed.
SaveCutShort(f, image_path, out) ==
    Outcome("error", Save(f, out.saved_path, PartialBytes(f[image_path].bytes.origin)),
            out.new_width, out.new_height, NoPath)

\* The call whose resize or save raises before anything is written (no
\* memory, an encoder error, an open that fails): the size is computed and
\* the tree is as it was.
ResizeOrSaveRaises(f, out) ==
    Outcome("error", f, out.new_width, out.new_height, NoPath)

\* Every way a call can end.  Besides the call whose prints all succeed:
\*  - a print of lines 18, 22, 30 or 37 raises before a size is computed and
\*    the handler returns 'error', or the handler's own print (line 66)
\*    raises too and the exception leaves the transformer;
\*  - the resize or the save raises, or the print of line 62 raises after
\*    the save, and the handler's print raises: the call has computed its
\*    size, and written what it has written, when the exception leaves it;
\*  - the resize or the save raises on a target the model would save;
\*  - the save raises after it has opened its target.
TransformerCalls(f, ro, image_path, max) ==
    LET out == compress_and_resize_image(f, ro, image_path, max)
    IN {CallRecord(image_path, f, max, out, out.result)}
       \cup {CallRecord(image_path, f, max, Outcome(r, f, 0, 0, NoPath), r) :
                r \in {"error", "raised"}}
       \cup {CallRecord(image_path, f, max, out, r) :
                r \in IF out.result = "compressed" THEN {"error", "raised"}
                      ELSE IF out.result = "error" THEN {"raised"}
                      ELSE {}}
       \cup {CallRecord(image_path, f, max, ResizeOrSaveRaises(f, out), r) :
                r \in IF out.result = "compressed" THEN {"error", "raised"} ELSE {}}
       \cup {CallRecord(image_path, f, max, SaveCutShort(f, image_path, out), r) :
                r \in IF out.result = "compressed" THEN {"error", "raised"} ELSE {}}

\* The file systems a KeyboardInterrupt can leave when it arrives during a
\* call: nothing written yet, the save cut short, the save complete.
InterruptedCalls(f, ro, image_path, max) ==
    LET out == compress_and_resize_image(f, ro, image_path, max)
    IN {f} \cup
       IF out.result = "compressed"
       THEN {out.fs, SaveCutShort(f, image_path, out).fs}
       ELSE {}

\* ----------------------------------------------------------------- inputs
\* What a file of the initial tree is: its permission bits and what its
\* bytes decode to.
Kind(r, w, d, fmt, wd, ht) ==
    [readable |-> r, writable |-> w, decodable |-> d, format |-> fmt,
     width |-> wd, height |-> ht]
\* A valid large image the process may not read.
UnreadableKind == Kind(FALSE, TRUE, TRUE, "JPEG", MaxDim, MaxDim)
\* A readable file no decoder identifies.
GarbageKind == Kind(TRUE, TRUE, FALSE, "", 0, 0)
FileOf(k, p) ==
    File(k.readable, k.writable,
         IF k.decodable THEN ImageBytes(k.format, k.width, k.height, p)
         ELSE GarbageBytes(p))

\* The transformer's inputs: every format, size and write permission.
TKinds ==
    {UnreadableKind, GarbageKind} \cup
    {Kind(TRUE, w, TRUE, fmt, wd, ht) :
        w \in BOOLEAN, fmt \in Formats, wd \in 1..MaxDim, ht \in 1..MaxDim}

\* The walker's inputs: an unreadable file, garbage, a small and a large
\* image saved in place (JPEG), and a large and a thin image that takes the
\* fallback (BMP); the thin one's target height is 0.
WalkKinds ==
    {UnreadableKind, GarbageKind,
     Kind(TRUE, TRUE, TRUE, "JPEG", 1, 1),
     Kind(TRUE, TRUE, TRUE, "JPEG", MaxDim, MaxDim),
     Kind(TRUE, TRUE, TRUE, "BMP", MaxDim, MaxDim),
     Kind(TRUE, TRUE, TRUE, "BMP", MaxDim, 1)}
KindsFor(p) == IF Lower(p.ext) \in image_extensions THEN WalkKinds ELSE {GarbageKind}
\* The walker's tree: a.jpg, a.bmp and a.txt in the root, a.JPG in the
\* sub-directory.
WalkPaths ==
    {p \in Paths : \/ p.dir = RootDir /\ p.ext \in {".jpg", ".bmp", ".txt"}
                   \/ p.dir /= RootDir /\ p.ext = ".JPG"}

\* --------------------------------------------------------------- counters
Counted == processed_images + skipped_images + failed_images
Visits(p) == Cardinality({i \in 1..Len(calls) : calls[i].path = p})

\* (The else branch left out.)
CountResultNoElse(result) ==
    /\ processed_images' = processed_images + (IF result = "compressed" THEN 1 ELSE 0)
    /\ skipped_images' = skipped_images + (IF result = "skipped" THEN 1 ELSE 0)
    /\ failed_images' = failed_images
\* Lines 114-119: the tag the transformer returned, mapped to its counter.
CountResult(result) ==
    /\ processed_images' = processed_images + (IF result = "compressed" THEN 1 ELSE 0)
    /\ skipped_images' = skipped_images + (IF result = "skipped" THEN 1 ELSE 0)
    /\ failed_images' = failed_images + (IF result \notin {"compressed", "skipped"} THEN 1 ELSE 0)

\* (The exception logged and not counted.)
OnExceptionNoCount ==
    \/ /\ pc' = "files"
       /\ file_path' = NoPath
       /\ UNCHANGED <<processed_images, skipped_images, failed_images>>
    \/ /\ pc' = "crashed"
       /\ UNCHANGED <<file_path, processed_images, skipped_images, failed_images>>
\* Lines 120-122: an exception out of the transformer is logged, then
\* counted, and the loop goes on; when the print of line 121 raises, the
\* exception leaves the walker before the counter is incremented.
OnException ==
    \/ /\ pc' = "files"
       /\ file_path' = NoPath
       /\ failed_images' = failed_images + 1
       /\ UNCHANGED <<processed_images, skipped_images>>
    \/ /\ pc' = "crashed"
       /\ UNCHANGED <<file_path, processed_images, skipped_images, failed_images>>

\* (The directory listed again when the transformer has created a file.)
RestOfFilesRelisted(f) ==
    IF DOMAIN f /= DOMAIN fs
    THEN {p \in DOMAIN f : p.dir = file_path.dir}
    ELSE pending
\* The rest of `files` once file_path is done: the listing os.walk took when
\* it entered the directory, whatever the transformer has created since.
RestOfFiles(f) == pending

\* ----------------------------------------------------------------- walker
\* The walker returns or is left by an exception: os.walk's state and the
\* listing go with its frame.
Unwind == stack' = <<>> /\ pending' = {}

WalkIdle ==
    /\ stack = <<>> /\ pending = {} /\ file_path = NoPath
    /\ total_images = 0 /\ processed_images = 0
    /\ skipped_images = 0 /\ failed_images = 0
    /\ calls = <<>> /\ tpath = NoPath

Init ==
    /\ root_is_dir \in BOOLEAN
    /\ max_size \in 1..MaxSize
    /\ rodirs \in {{}, {RootDir}}
    /\ root_is_dir \/ rodirs = {}
    /\ \E S \in SUBSET WalkPaths :
          /\ Cardinality(S) <= MaxFiles
          /\ root_is_dir \/ S = {}
          /\ \E k \in [S -> WalkKinds] :
                /\ \A p \in S : k[p] \in KindsFor(p)
                /\ fs = [p \in S |-> FileOf(k[p], p)]
    /\ fs0 = fs
    /\ pc = "start"
    /\ WalkIdle

\* Lines 80-96: the root check, the counters' reset and the opening prints.
\* An exception from a print of the walker itself leaves the walker.
Start ==
    /\ pc = "start"
    /\ \/ /\ ~root_is_dir
          /\ pc' \in {"noroot", "crashed"}
          /\ UNCHANGED <<stack, total_images, processed_images, skipped_images, failed_images>>
       \/ /\ root_is_dir
          /\ total_images' = 0 /\ processed_images' = 0
          /\ skipped_images' = 0 /\ failed_images' = 0
          /\ \/ pc' = "walk" /\ stack' = <<RootDir>>
             \/ pc' = "crashed" /\ UNCHANGED stack
    /\ UNCHANGED <<fs, fs0, rodirs, root_is_dir, max_size, pending, file_path, calls, tpath>>

\* Lines 98-100: os.walk lists the next directory, top-down: its files as
\* they are now, and its sub-directories ahead of the directories still
\* waiting; then the directory's name is printed.
ScanDir ==
    /\ pc = "walk" /\ stack /= <<>>
    /\ LET root == Head(stack)
       IN \/ /\ pending' = {p \in DOMAIN fs : p.dir = root}
             /\ stack' = SubDirs(root) \o Tail(stack)
             /\ pc' = "files"
          \/ /\ pc' = "crashed"
             /\ Unwind
    /\ UNCHANGED <<fs, fs0, rodirs, root_is_dir, max_size, file_path, total_images,
                   processed_images, skipped_images, failed_images, calls, tpath>>

\* Lines 103-110: the next file of the listing, in the order the OS gave.
\* file_path is the candidate that is counted in total_images and whose
\* outcome is not counted yet; the print of line 109 comes before the count.
NextFile ==
    /\ pc = "files" /\ pending /= {}
    /\ \E p \in pending :
         LET file_ext == Lower(p.ext)
         IN \/ /\ Exists(fs, p) /\ file_ext \in image_extensions
               /\ total_images' = total_images + 1
               /\ file_path' = p
               /\ pending' = pending \ {p}
               /\ pc' = "calling"
            \/ /\ Exists(fs, p) /\ file_ext \in image_extensions
               /\ pc' = "crashed"
               /\ pending' = {}
               /\ UNCHANGED <<total_images, file_path>>
            \/ /\ ~(Exists(fs, p) /\ file_ext \in image_extensions)
               /\ pending' = pending \ {p}
               /\ UNCHANGED <<total_images, file_path, pc>>
    /\ stack' = IF pc' = "crashed" THEN <<>> ELSE stack
    /\ UNCHANGED <<fs, fs0, rodirs, root_is_dir, max_size, processed_images,
                   skipped_images, failed_images, calls, tpath>>

\* Lines 111-122: the transformer runs on file_path and the walker counts
\* what came of it.
CallTransformer ==
    /\ pc = "calling"
    /\ \E call \in TransformerCalls(fs, rodirs, file_path, max_size) :
          /\ fs' = call.post
          /\ calls' = Append(calls, call)
          /\ \/ /\ call.result /= "raised"
                /\ CountResult(call.result)
                /\ pc' = "files"
                /\ file_path' = NoPath
             \/ /\ call.result = "raised"
                /\ OnException
          /\ IF pc' = "crashed" THEN Unwind
             ELSE pending' = RestOfFiles(call.post) /\ UNCHANGED stack
    /\ UNCHANGED <<fs0, rodirs, root_is_dir, max_size, total_images, tpath>>

\* The files of a directory are exhausted: back to os.walk.
DirDone ==
    /\ pc = "files" /\ pending = {}
    /\ pc' = "walk"
    /\ UNCHANGED <<fs, fs0, rodirs, root_is_dir, max_size, stack, pending, file_path,
                   total_images, processed_images, skipped_images, failed_images,
                   calls, tpath>>

\* Lines 124-129: os.walk is exhausted and the summary is printed.
Summary ==
    /\ pc = "walk" /\ stack = <<>>
    /\ \/ pc' = "done"
       \/ pc' = "crashed"
    /\ Unwind
    /\ UNCHANGED <<fs, fs0, rodirs, root_is_dir, max_size, file_path,
                   total_images, processed_images, skipped_images, failed_images,
                   calls, tpath>>

\* A KeyboardInterrupt: `except Exception` does not catch it, and it leaves
\* the walker wherever it arrives, with no summary printed.  During a call
\* the file may be unwritten, half-written or written.
Interrupt ==
    /\ \/ /\ pc \in {"start", "walk", "files"}
          /\ UNCHANGED fs
       \/ /\ pc = "calling"
          /\ fs' \in InterruptedCalls(fs, rodirs, file_path, max_size)
    /\ pc' = "interrupted"
    /\ Unwind
    /\ UNCHANGED <<fs0, rodirs, root_is_dir, max_size, file_path,
                   total_images, processed_images, skipped_images, failed_images,
                   calls, tpath>>

process_directory_recursive ==
    \/ Start
    \/ ScanDir
    \/ NextFile
    \/ CallTransformer
    \/ DirDone
    \/ Summary
    \/ Interrupt

Next == process_directory_recursive

Spec == Init /\ [][Next]_vars

\* ------------------------------------------------- the transformer, alone
\* The transformer is called twice on one path of one directory that holds
\* the file and, possibly, a file where the fallback would save; standard
\* output accepts every print.
InitT ==
    /\ root_is_dir = TRUE
    /\ rodirs \in {{}, {RootDir}}
    /\ max_size \in 1..MaxSize
    /\ tpath \in {p \in Paths : p.dir = RootDir /\ Lower(p.ext) \in image_extensions}
    /\ \E k \in TKinds, sib \in BOOLEAN, ks \in TKinds :
          fs = [p \in {tpath} \cup (IF sib THEN {JpgPath(tpath)} ELSE {}) |->
                  IF p = tpath THEN FileOf(k, p) ELSE FileOf(ks, p)]
    /\ fs0 = fs
    /\ pc = "first"
    /\ stack = <<>> /\ pending = {} /\ file_path = NoPath
    /\ total_images = 0 /\ processed_images = 0
    /\ skipped_images = 0 /\ failed_images = 0
    /\ calls = <<>>

\* One call of the transformer on tpath, recorded in `calls`.
Run ==
    /\ LET out == compress_and_resize_image(fs, rodirs, tpath, max_size)
       IN /\ fs' = out.fs
          /\ calls' = Append(calls, CallRecord(tpath, fs, max_size, out, out.result))
    /\ UNCHANGED <<fs0, rodirs, root_is_dir, max_size, stack, pending, file_path, total_images,
                   processed_images, skipped_images, failed_images, tpath>>

FirstRun ==
    /\ pc = "first"
    /\ Run
    /\ pc' = "second"

SecondRun ==
    /\ pc = "second"
    /\ Run
    /\ pc' = "end"

NextT ==
    \/ FirstRun
    \/ SecondRun

SpecT == InitT /\ [][NextT]_vars

\* ------------------------------------------------------------- properties
Candidate(p) == Lower(p.ext) \in image_extensions
IsImage(f, p) == Exists(f, p) /\ f[p].readable /\ f[p].bytes.decodable
Oversize(img, max) == img.width > max \/ img.height > max
Failures == Cardinality({i \in 1..Len(calls) : calls[i].result \in {"error", "raised"}})
Larger(a, b) == IF a > b THEN a ELSE b

\* C1 as stated: total found = compressed + skipped + failed in every state
\* of the walker, the states between the two increments included.
C1_BalancedAtAllTimes == total_images = Counted

\* C1, amended: the total is one ahead of the three outcome counters from
\* the count of a candidate to the count of its outcome (also when an
\* interrupt or an exception leaves the walker in between), and equal to
\* their sum in every other state.
C1_BalancedBetweenFiles ==
    total_images = Counted + (IF file_path /= NoPath THEN 1 ELSE 0)

C1_Witness == pc = "calling" /\ total_images = 2 /\ failed_images = 1

\* C2: when the walk of an existing directory ends with its summary, total =
\* compressed + skipped + failed, whatever the files were and whatever the
\* transformer returned or raised.
C2_SummaryBalanced == pc = "done" => total_images = Counted

C2_Witness ==
    /\ pc = "done"
    /\ \E i, j \in 1..Len(calls) :
          calls[i].result = "raised" /\ calls[j].result = "compressed"

\* C3: for an image with a side above max_size the computed size has its
\* larger side equal to max_size and its other side equal to
\* floor(other * max_size / larger); the width is the larger side iff
\* width > height.
C3_TargetSize ==
    \A i \in 1..Len(calls) :
       LET c == calls[i]
           img == c.pre[c.path].bytes
       IN (IsImage(c.pre, c.path) /\ Oversize(img, c.max_size)) =>
            /\ Larger(c.new_width, c.new_height) = c.max_size
            /\ img.width > img.height =>
                  /\ c.new_width = c.max_size
                  /\ c.new_height = (img.height * c.max_size) \div img.width
            /\ img.width <= img.height =>
                  /\ c.new_height = c.max_size
                  /\ c.new_width = (img.width * c.max_size) \div img.height

C3_Witness ==
    \E i \in 1..Len(calls) :
       LET c == calls[i]
           img == c.pre[c.path].bytes
       IN /\ IsImage(c.pre, c.path)
          /\ img.width = 3 /\ img.height = 2 /\ c.max_size = 2
          /\ c.result = "compressed"
          /\ c.post[c.saved_path].bytes.width = 2
          /\ c.post[c.saved_path].bytes.height = 1

\* C4 as stated: the second of two runs on the same image with the same
\* max_size returns skipped, whatever the image's native format.  (Stated of
\* an image the first run handled: a first run that returns error for an
\* unwritable file, say, returns error again.)
C4_SecondRunSkipped ==
    (Len(calls) = 2 /\ IsImage(calls[1].pre, calls[1].path)
       /\ calls[1].result /= "error") =>
       calls[2].result = "skipped"

\* C4, amended: the second run returns skipped when the first run returned
\* skipped, and when the first run returned compressed and saved to the path
\* it read: the native format is JPEG or PNG, or the extension is .jpg.
C4_SecondRunSkippedInPlace ==
    (Len(calls) = 2 /\ IsImage(calls[1].pre, calls[1].path)) =>
       LET c == calls[1]
           img == c.pre[c.path].bytes
       IN /\ c.result = "skipped" => calls[2].result = "skipped"
          /\ (c.result = "compressed"
                /\ (img.format \in {"JPEG", "PNG"} \/ c.path.ext = ".jpg")) =>
                calls[2].result = "skipped"

C4_Witness ==
    /\ Len(calls) = 2
    /\ calls[1].result = "compressed"
    /\ calls[1].pre[calls[1].path].bytes.format = "BMP"
    /\ calls[1].path.ext = ".jpg"
    /\ calls[2].result = "skipped"

\* C5 as stated: a resize of an image whose native format is neither JPEG
\* nor PNG leaves the file at the original path byte-identical and writes a
\* new sibling file, the path with its extension replaced by .jpg.
C5_OriginalUntouchedNewSibling ==
    \A i \in 1..Len(calls) :
       LET c == calls[i]
           img == c.pre[c.path].bytes
       IN (IsImage(c.pre, c.path) /\ img.format \notin {"JPEG", "PNG"}
             /\ c.result = "compressed") =>
            /\ c.post[c.path] = c.pre[c.path]
            /\ c.saved_path = JpgPath(c.path)
            /\ ~Exists(c.pre, c.saved_path)
            /\ Exists(c.post, c.saved_path)

\* C5, amended: such a resize writes the JPEG to the path with its extension
\* replaced by .jpg, creating that file or overwriting the one that is there,
\* and changes no other file: the original is left byte-identical exactly
\* when its extension is not .jpg already.
C5_FallbackSavesToJpgPath ==
    \A i \in 1..Len(calls) :
       LET c == calls[i]
           img == c.pre[c.path].bytes
       IN (IsImage(c.pre, c.path) /\ img.format \notin {"JPEG", "PNG"}
             /\ c.result = "compressed") =>
            /\ c.saved_path = JpgPath(c.path)
            /\ Exists(c.post, c.saved_path)
            /\ c.post[c.saved_path].bytes =
                  ImageBytes("JPEG", c.new_width, c.new_height, img.origin)
            /\ DOMAIN c.post = DOMAIN c.pre \cup {JpgPath(c.path)}
            /\ \A q \in DOMAIN c.pre : q /= JpgPath(c.path) => c.post[q] = c.pre[q]
            /\ c.path.ext /= ".jpg" => c.post[c.path] = c.pre[c.path]
            /\ c.path.ext = ".jpg" => c.post[c.path].bytes /= c.pre[c.path].bytes

C5_Witness ==
    \E i \in 1..Len(calls) :
       LET c == calls[i]
       IN /\ c.result = "compressed"
          /\ c.pre[c.path].bytes.format = "BMP"
          /\ c.saved_path /= c.path
          /\ Exists(c.pre, c.saved_path)
          /\ c.post[c.saved_path].bytes /= c.pre[c.saved_path].bytes

\* C6: on a readable, decodable image with width and height both at most
\* max_size the transformer returns skipped and no file's bytes change.
C6_SmallSkippedUntouched ==
    \A i \in 1..Len(calls) :
       LET c == calls[i]
           img == c.pre[c.path].bytes
       IN (IsImage(c.pre, c.path) /\ ~Oversize(img, c.max_size)) =>
            c.result = "skipped" /\ c.post = c.pre

C6_Witness ==
    \E i \in 1..Len(calls) :
       LET c == calls[i]
           img == c.pre[c.path].bytes
       IN /\ IsImage(c.pre, c.path)
          /\ img.width = c.max_size /\ img.height < c.max_size
          /\ c.result = "skipped"

\* C7: a candidate on which the transformer returns error or raises is
\* counted as failed once, no exception leaves the walker while it handles
\* a candidate, and by the summary every candidate of the tree has been
\* passed to the transformer.
C7_FailureContained ==
    /\ pc = "crashed" => file_path = NoPath
    /\ file_path = NoPath => failed_images = Failures
    /\ pc = "done" =>
          \A p \in DOMAIN fs0 : Candidate(p) => Visits(p) = 1

\* C8: in one run no path is passed to the transformer more than once,
\* though the fallback creates .jpg files in the tree during the walk.
C8_VisitedAtMostOnce ==
    \A i, j \in 1..Len(calls) : calls[i].path = calls[j].path => i = j

C8_Witness ==
    /\ pc = "done"
    /\ Len(calls) = 2
    /\ \E p \in DOMAIN fs : ~Exists(fs0, p) /\ Visits(p) = 0

\* C9: after a complete walk every candidate the transformer skipped has
\* the bytes it had before the walk.
C9_SkippedKeepBytes ==
    pc = "done" =>
       \A i \in 1..Len(calls) :
          calls[i].result = "skipped" =>
             fs[calls[i].path].bytes = fs0[calls[i].path].bytes

\* C10: whenever the transformer reaches the resample step, new_width and
\* new_height are both at least 1 and at most max_size.
C10_TargetInRange ==
    \A i \in 1..Len(calls) :
       LET c == calls[i]
           img == c.pre[c.path].bytes
       IN (IsImage(c.pre, c.path) /\ Oversize(img, c.max_size)) =>
            /\ 1 <= c.new_width /\ c.new_width <= c.max_size
            /\ 1 <= c.new_height /\ c.new_height <= c.max_size

=============================================================================
